---- MODULE Spec2Model ----
(***************************************************************************)
(* Tsuki Coffee loyalty backend: the members, products and transactions    *)
(* collections and the request handlers of memberController.js,            *)
(* productController.js and the transaction controller.                    *)
(*                                                                         *)
(* One action per handler.  A handler runs from request to response; the   *)
(* store writes it awaits may fail (save() rejects), which the handler's   *)
(* catch block turns into a 500 answer.                                    *)
(*                                                                         *)
(* Strings that the code trims are sequences of characters, " " being the  *)
(* blank.  Request values whose JavaScript type the code tests are tagged  *)
(* records [t, v].  Numbers are counted in halves, time in years.          *)
(***************************************************************************)
EXTENDS Integers, Sequences, FiniteSets, TLC

\* ---------------------------------------------------------------- bounds
MaxMembers == 2
MaxTx == 1
MaxTime == 1
MaxListed == 3
\* requests of the concurrent specification that get past their first read
MaxRequests == 3

\* ------------------------------------------------------- program constants
MIN_REDEEM_POINTS == 10
OneYear == 1
DefaultQuantity == 1
DefaultPoints == 0
DefaultPrice == 0
DefaultPointValue == 1

\* ------------------------------------------------------------ identifiers
\* 24-hex-digit identifiers the store hands out to new members, in order
MemberIdPool == <<"m1", "m2", "m3", "m4">>
\* the same for new products; the seed holds p1 and p2
ProductIdPool == <<"p1", "p2", "p3", "p4">>
\* a well-formed identifier that names no record
FreshId == "f0"
\* a string that is not a well-formed ObjectId
BadId == "zz"
\* a missing identifier (null)
NullId == ""

\* ObjectIdIsValid that only asks for a value
ObjectIdIsPresent(id) == id # NullId

\* mongoose.Types.ObjectId.isValid
ObjectIdIsValid(id) == id # BadId /\ id # NullId

\* ------------------------------------------------------------ JS values
Undefined == [t |-> "undefined", v |-> 0]
StringVal == [t |-> "string", v |-> 0]
\* A JavaScript number is counted in halves, so that 1.5 is a value: v is the
\* number of halves.  Unit is the count that stands for 1.
Unit == 2
Whole(n) == n * Unit
\* the whole number n
Num(n) == [t |-> "number", v |-> Whole(n)]
\* the number h/2
Halves(h) == [t |-> "number", v |-> h]
\* a * b, one of the factors being whole
Times(a, b) == (a * b) \div Unit
\* typeof x === 'number'
IsNumber(x) == x.t = "number"

NoStr == [t |-> "undefined", s |-> <<>>]
Str(s) == [t |-> "string", s |-> s]
\* typeof x === 'string'
IsString(x) == x.t = "string"

\* a date that the request does not carry
NoDate == -1

\* String.prototype.trim
RECURSIVE TrimLeft(_)
TrimLeft(s) == IF s # <<>> /\ Head(s) = " " THEN TrimLeft(Tail(s)) ELSE s
RECURSIVE TrimRight(_)
TrimRight(s) ==
    IF s # <<>> /\ s[Len(s)] = " " THEN TrimRight(SubSeq(s, 1, Len(s) - 1)) ELSE s
Trim(s) == TrimRight(TrimLeft(s))

\* ------------------------------------------------------------- seed data
\* ClubCategory documents: no handler creates one, so the collection holds
\* what it was seeded with.
Categories == [Gold |-> "c1"]
NoCategory == ""

\* Product documents as ProductSchema stores them: the schema's name path is
\* product_name.  No handler can store a product (see AddProductResult), so
\* the collection holds what it was seeded with.
SeedProducts ==
    ("p1" :> [product_name |-> <<"L">>, price |-> Whole(10), pointValue |-> Whole(2)])
    @@ ("p2" :> [product_name |-> <<"T">>, price |-> Whole(4), pointValue |-> Whole(0)])

\* --------------------------------------------------------------- replies
\* res.status(status).json({ error | message: msg })
Reply(status, msg) == [status |-> status, msg |-> msg]

\* ------------------------------------------------------------ Member model
\* Member.findOne({ phone })
FindMemberByPhone(ms, phone) == {m \in DOMAIN ms : ms[m].phone = phone}

\* Member.findById(id): the set holding the record's key, empty when absent
FindMemberById(ms, id) == {m \in DOMAIN ms : m = id}

\* MemberSchema validation on save: name and phone required (a required
\* string must be non-empty), points a number >= 0
MemberIsValid(m) == m.name # <<>> /\ m.phone # <<>> /\ m.points >= 0

\* member.save(): the collection after the write
SaveMember(ms, id, doc) == [m \in DOMAIN ms \cup {id} |-> IF m = id THEN doc ELSE ms[m]]

\* the identifier the store gives the next member document
NextMemberId(ms) == MemberIdPool[Cardinality(DOMAIN ms) + 1]

\* IsExpired with the comparison turned round
IsExpiredInverted(m, t) == m.validUntil > t

\* IsExpired with <= in place of <
IsExpiredAtValidUntil(m, t) == m.validUntil <= t

\* member.validUntil < now
IsExpired(m, t) == m.validUntil < t

\* ---------------------------------------------------------------- addMember
\* typeof points === "number" && points >= 0 ? points : 0
InitialPoints(points) ==
    IF IsNumber(points) /\ points.v >= 0 THEN points.v ELSE Whole(DefaultPoints)

\* validUntil ? new Date(validUntil) : one year from now
InitialValidUntil(validUntil, t) ==
    IF validUntil # NoDate THEN validUntil ELSE t + OneYear

\* new Member({...})
NewMember(r, t) ==
    [name |-> Trim(r.name),
     phone |-> Trim(r.phone),
     clubCategory |-> IF r.clubCategory # NoCategory THEN Categories[r.clubCategory]
                      ELSE NoCategory,
     validUntil |-> InitialValidUntil(r.validUntil, t),
     points |-> InitialPoints(r.points)]

\* POST /members with body r: the reply and the members collection after it
AddMemberResult(ms, t, r) ==
    IF Trim(r.name) = <<>> \/ Trim(r.phone) = <<>>
    THEN [reply |-> Reply(400, "Name and phone are required."), members |-> ms]
    ELSE IF FindMemberByPhone(ms, Trim(r.phone)) # {}
    THEN [reply |-> Reply(400, "Member ini sudah terdaftar."), members |-> ms]
    ELSE IF r.clubCategory # NoCategory /\ r.clubCategory \notin DOMAIN Categories
    THEN [reply |-> Reply(400, "ClubCategory not found."), members |-> ms]
    ELSE IF ~r.saveOk \/ ~MemberIsValid(NewMember(r, t))
    THEN [reply |-> Reply(500, "Failed to add member."), members |-> ms]
    ELSE [reply |-> Reply(200, "member"),
          members |-> SaveMember(ms, NextMemberId(ms), NewMember(r, t))]

\* --------------------------------------------------------------- editMember
\* if (typeof name === "string") member.name = name.trim(); same for phone
WithNameAndPhone(m, name, phone) ==
    [m EXCEPT !.name = IF IsString(name) THEN Trim(name.s) ELSE @,
              !.phone = IF IsString(phone) THEN Trim(phone.s) ELSE @]

\* if (typeof points === "number" && points >= 0) member.points = points
WithPoints(m, points) ==
    [m EXCEPT !.points = IF IsNumber(points) /\ points.v >= 0 THEN points.v ELSE @]

\* the document editMember saves
EditedMember(m, r) ==
    LET m1 == WithNameAndPhone(m, r.name, r.phone)
        m2 == [m1 EXCEPT !.clubCategory =
                  IF r.clubCategory # NoCategory THEN Categories[r.clubCategory] ELSE @]
        m3 == [m2 EXCEPT !.validUntil = IF r.validUntil # NoDate THEN r.validUntil ELSE @]
    IN WithPoints(m3, r.points)

\* PUT /members/:id with body r
EditMemberResult(ms, r) ==
    IF ~ObjectIdIsValid(r.id)
    THEN \* findById rejects with a CastError, which the handler catches
         [reply |-> Reply(500, "Failed to edit member."), members |-> ms]
    ELSE IF FindMemberById(ms, r.id) = {}
    THEN [reply |-> Reply(404, "Member not found."), members |-> ms]
    ELSE IF r.clubCategory # NoCategory /\ r.clubCategory \notin DOMAIN Categories
    THEN [reply |-> Reply(400, "ClubCategory not found."), members |-> ms]
    ELSE IF ~r.saveOk \/ ~MemberIsValid(EditedMember(ms[r.id], r))
    THEN [reply |-> Reply(500, "Failed to edit member."), members |-> ms]
    ELSE [reply |-> Reply(200, "member"),
          members |-> SaveMember(ms, r.id, EditedMember(ms[r.id], r))]

\* ------------------------------------------------------------- redeemPoints
\* const { points = 0 } = req.body
RequestedPoints(points) == IF points = Undefined THEN Num(0) ELSE points

\* Redeemed with = in place of -=
RedeemedAssigned(m, n) == [m EXCEPT !.points = n]

\* member.points -= points
Redeemed(m, n) == [m EXCEPT !.points = @ - n]

\* RedeemPointsResult rewritten as one update of the stored document
\* ($inc: { points: -n }), which neither compares the balance read before nor
\* runs the schema's validation
RedeemPointsByUpdate(ms, t, r) ==
    LET req == RequestedPoints(r.points) IN
    IF ~IsNumber(req) \/ req.v <= 0
    THEN [reply |-> Reply(400, "Points must be a positive number."), members |-> ms]
    ELSE IF ~ObjectIdIsValid(r.id)
    THEN [reply |-> Reply(500, "Failed to redeem points."), members |-> ms]
    ELSE IF FindMemberById(ms, r.id) = {}
    THEN [reply |-> Reply(404, "Member not found."), members |-> ms]
    ELSE IF IsExpired(ms[r.id], t)
    THEN [reply |-> Reply(400, "Membership expired."), members |-> ms]
    ELSE IF req.v < Whole(MIN_REDEEM_POINTS)
    THEN [reply |-> Reply(400, "Minimum redeem points is 10."), members |-> ms]
    ELSE IF ~r.saveOk
    THEN [reply |-> Reply(500, "Failed to redeem points."), members |-> ms]
    ELSE [reply |-> Reply(200, "Points redeemed successfully."),
          members |-> SaveMember(ms, r.id, Redeemed(ms[r.id], req.v))]

\* POST /members/:id/redeem with body r
RedeemPointsResult(ms, t, r) ==
    LET req == RequestedPoints(r.points) IN
    IF ~IsNumber(req) \/ req.v <= 0
    THEN [reply |-> Reply(400, "Points must be a positive number."), members |-> ms]
    ELSE IF ~ObjectIdIsValid(r.id)
    THEN [reply |-> Reply(500, "Failed to redeem points."), members |-> ms]
    ELSE IF FindMemberById(ms, r.id) = {}
    THEN [reply |-> Reply(404, "Member not found."), members |-> ms]
    ELSE IF IsExpired(ms[r.id], t)
    THEN [reply |-> Reply(400, "Membership expired."), members |-> ms]
    ELSE IF ms[r.id].points < req.v
    THEN [reply |-> Reply(400, "Insufficient points."), members |-> ms]
    ELSE IF req.v < Whole(MIN_REDEEM_POINTS)
    THEN [reply |-> Reply(400, "Minimum redeem points is 10."), members |-> ms]
    ELSE IF ~r.saveOk \/ ~MemberIsValid(Redeemed(ms[r.id], req.v))
    THEN [reply |-> Reply(500, "Failed to redeem points."), members |-> ms]
    ELSE [reply |-> Reply(200, "Points redeemed successfully."),
          members |-> SaveMember(ms, r.id, Redeemed(ms[r.id], req.v))]

\* ------------------------------------------------------------ checkValidity
\* GET /members/:id/validity
CheckValidityResult(ms, t, id) ==
    IF ~ObjectIdIsValid(id)
    THEN \* findById rejects with a CastError, which the handler catches
         Reply(500, "Failed to check validity.")
    ELSE IF FindMemberById(ms, id) = {}
    THEN Reply(404, "Member not found.")
    ELSE IF ms[id].validUntil >= t
    THEN Reply(200, "valid: true")
    ELSE Reply(200, "valid: false")

\* ----------------------------------------------------------- Product model
\* Product.findById(id)
FindProductById(ps, id) == {p \in DOMAIN ps : p = id}

\* Product.findOne({ name }).  ProductSchema has no path called name.  With
\* strictQuery on, the driver drops the unknown path and the filter is
\* empty, so every product matches; with it off, the filter is sent as
\* written and matches no stored document, none of which carries a name.
FindProductByName(ps, strict, name) == IF strict THEN DOMAIN ps ELSE {}

\* Product.findOne({ name, _id: { $ne: id } })
FindOtherProductByName(ps, strict, name, id) ==
    FindProductByName(ps, strict, name) \ {id}

\* ProductSchema validation on save: product_name required (non-empty),
\* price >= 0, pointValue >= 0
ProductIsValid(p) == p.product_name # <<>> /\ p.price >= 0 /\ p.pointValue >= 0

\* product.save()
SaveProduct(ps, id, doc) == [p \in DOMAIN ps \cup {id} |-> IF p = id THEN doc ELSE ps[p]]

\* the identifier the store gives the next product document
NextProductId(ps) == ProductIdPool[Cardinality(DOMAIN ps) + 1]

\* --------------------------------------------------------------- addProduct
\* const { name = '', price = 0, pointValue = 1 } = req.body
PriceOrDefault(price) == IF price = Undefined THEN Num(DefaultPrice) ELSE price
PointValueOrDefault(pv) == IF pv = Undefined THEN Num(DefaultPointValue) ELSE pv

\* new Product({ name, price, pointValue }): the schema is strict, so the
\* name key, which is no schema path, is dropped, and product_name takes its
\* default, the empty string.
NewProduct(name, price, pointValue) ==
    [product_name |-> <<>>, price |-> price, pointValue |-> pointValue]

\* POST /products with body r
AddProductResult(ps, strict, r) ==
    LET price == PriceOrDefault(r.price)
        pv == PointValueOrDefault(r.pointValue)
    IN
    IF Trim(r.name) = <<>>
    THEN [reply |-> Reply(400, "Product name is required."), products |-> ps]
    ELSE IF ~IsNumber(price) \/ price.v < 0
    THEN [reply |-> Reply(400, "Product price must be a non-negative number."), products |-> ps]
    ELSE IF ~IsNumber(pv) \/ pv.v < 0
    THEN [reply |-> Reply(400, "Product pointValue must be a non-negative number."),
          products |-> ps]
    ELSE IF FindProductByName(ps, strict, Trim(r.name)) # {}
    THEN [reply |-> Reply(400, "Product name already exists."), products |-> ps]
    ELSE IF ~r.saveOk \/ ~ProductIsValid(NewProduct(Trim(r.name), price.v, pv.v))
    THEN [reply |-> Reply(500, "Failed to add product."), products |-> ps]
    ELSE [reply |-> Reply(200, "product"),
          products |-> SaveProduct(ps, NextProductId(ps), NewProduct(Trim(r.name), price.v, pv.v))]

\* -------------------------------------------------------------- editProduct
\* product.name = name.trim() sets a key that is no schema path and is not
\* written; price and pointValue are assigned when numbers >= 0
EditedProduct(p, r) ==
    [p EXCEPT !.price = IF IsNumber(r.price) /\ r.price.v >= 0 THEN r.price.v ELSE @,
              !.pointValue = IF IsNumber(r.pointValue) /\ r.pointValue.v >= 0
                             THEN r.pointValue.v ELSE @]

\* PUT /products/:id with body r
EditProductResult(ps, strict, r) ==
    IF ~ObjectIdIsValid(r.id)
    THEN [reply |-> Reply(500, "Failed to edit product."), products |-> ps]
    ELSE IF FindProductById(ps, r.id) = {}
    THEN [reply |-> Reply(404, "Product not found."), products |-> ps]
    ELSE IF IsString(r.name) /\ Trim(r.name.s) # <<>>
            /\ FindOtherProductByName(ps, strict, Trim(r.name.s), r.id) # {}
    THEN [reply |-> Reply(400, "Product name already exists."), products |-> ps]
    ELSE IF ~r.saveOk \/ ~ProductIsValid(EditedProduct(ps[r.id], r))
    THEN [reply |-> Reply(500, "Failed to edit product."), products |-> ps]
    ELSE [reply |-> Reply(200, "product"),
          products |-> SaveProduct(ps, r.id, EditedProduct(ps[r.id], r))]

\* ----------------------------------------------------------- addTransaction
\* const { quantity = 1 } = req.body
QuantityOrDefault(q) == IF q = Undefined THEN Num(DefaultQuantity) ELSE q

\* NewTransaction with the quantity left out of pointsAdded
NewTransactionFlatPoints(memberId, productId, product, quantity, t) ==
    [memberId |-> memberId,
     productId |-> productId,
     quantity |-> quantity,
     totalPrice |-> Times(product.price, quantity),
     pointsAdded |-> product.pointValue,
     createdAt |-> t]

\* new Transaction({...}) from the member and product documents just read
NewTransaction(memberId, productId, product, quantity, t) ==
    [memberId |-> memberId,
     productId |-> productId,
     quantity |-> quantity,
     totalPrice |-> Times(product.price, quantity),
     pointsAdded |-> Times(product.pointValue, quantity),
     createdAt |-> t]

\* TransactionSchema validation on save: quantity >= 1, totalPrice >= 0,
\* pointsAdded >= 0
TransactionIsValid(tx) == tx.quantity >= Whole(1) /\ tx.totalPrice >= 0 /\ tx.pointsAdded >= 0

\* SaveTransaction writing over the latest document instead of inserting
SaveTransactionOverLatest(txs, tx) ==
    IF txs = <<>> THEN <<tx>> ELSE [txs EXCEPT ![Len(txs)] = tx]

\* transaction.save()
SaveTransaction(txs, tx) == Append(txs, tx)

\* CaughtAfterTransactionSave deleting the transaction just written
RolledBackAfterTransactionSave(txs) == SubSeq(txs, 1, Len(txs) - 1)

\* catch (error) { ... } reached after transaction.save() succeeded: the
\* block logs and answers 500; the transactions collection stays as written
CaughtAfterTransactionSave(txs) == txs

\* member.points = typeof member.points === 'number'
\*     ? member.points + pointsAdded : pointsAdded
\* (MemberSchema makes points a required number, so the first branch is taken)
WithPointsAdded(m, pointsAdded) == [m EXCEPT !.points = @ + pointsAdded]

\* POST /transactions with body r
AddTransactionResult(ms, ps, txs, t, r) ==
    LET q == QuantityOrDefault(r.quantity)
        none == [members |-> ms, transactions |-> txs]
    IN
    IF r.memberId = NullId \/ ~ObjectIdIsValid(r.memberId)
    THEN [reply |-> Reply(400, "Valid memberId is required.")] @@ none
    ELSE IF r.productId = NullId \/ ~ObjectIdIsValid(r.productId)
    THEN [reply |-> Reply(400, "Valid productId is required.")] @@ none
    ELSE IF ~IsNumber(q) \/ q.v < Whole(1)
    THEN [reply |-> Reply(400, "Quantity must be a positive integer.")] @@ none
    ELSE IF FindMemberById(ms, r.memberId) = {}
    THEN [reply |-> Reply(404, "Member not found.")] @@ none
    ELSE IF IsExpired(ms[r.memberId], t)
    THEN [reply |-> Reply(400, "Membership expired.")] @@ none
    ELSE IF FindProductById(ps, r.productId) = {}
    THEN [reply |-> Reply(404, "Product not found.")] @@ none
    ELSE
      LET tx == NewTransaction(r.memberId, r.productId, ps[r.productId], q.v, t)
          doc == WithPointsAdded(ms[r.memberId], tx.pointsAdded)
      IN
      IF ~r.txSaveOk \/ ~TransactionIsValid(tx)
      THEN [reply |-> Reply(500, "Failed to add transaction.")] @@ none
      ELSE IF ~r.memberSaveOk \/ ~MemberIsValid(doc)
      THEN [reply |-> Reply(500, "Failed to add transaction."),
            members |-> ms,
            transactions |-> CaughtAfterTransactionSave(SaveTransaction(txs, tx))]
      ELSE [reply |-> Reply(200, "transaction"),
            members |-> SaveMember(ms, r.memberId, doc),
            transactions |-> SaveTransaction(txs, tx)]

\* ------------------------------------------------------------- list queries
\* A date field of a filter: absent, the empty string, a string that
\* new Date() reads as the date v, or a string it reads as Invalid Date
NoCriterion == [t |-> "undefined", v |-> 0]
EmptyString == [t |-> "empty", v |-> 0]
DateString(d) == [t |-> "date", v |-> d]
NotADate == [t |-> "invalid", v |-> 0]

\* if (parsed.dateFrom): the value is not falsy
IsSupplied(c) == c.t \in {"date", "invalid"}

\* the query rejects with a CastError when a date to compare with is Invalid
\* Date or an identifier to compare with is no ObjectId
DateCasts(c) == c.t # "invalid"

\* the filter {}: NullId for no identifier condition
EveryTransaction ==
    [memberId |-> NullId, productId |-> NullId, gte |-> NoCriterion, lte |-> NoCriterion]

\* getTransactions, filter construction.  req.query.filter is absent, or a
\* string JSON.parse throws on ("unparseable"), or one it reads as a value
\* whose properties are undefined ("scalar"), as null (reading a property
\* throws) or as an object; a throw inside the try resets the filter to {}.
TransactionsFilter(q) ==
    IF q.kind # "object" THEN EveryTransaction
    ELSE [memberId |-> IF q.memberId # NullId /\ ObjectIdIsValid(q.memberId)
                       THEN q.memberId ELSE NullId,
          productId |-> IF q.productId # NullId /\ ObjectIdIsValid(q.productId)
                        THEN q.productId ELSE NullId,
          gte |-> IF IsSupplied(q.dateFrom) THEN q.dateFrom ELSE NoCriterion,
          lte |-> IF IsSupplied(q.dateTo) THEN q.dateTo ELSE NoCriterion]

\* TransactionMatches with $lt in place of $lte
TransactionMatchesBeforeDateTo(tx, f) ==
    /\ f.memberId # NullId => tx.memberId = f.memberId
    /\ f.productId # NullId => tx.productId = f.productId
    /\ f.gte.t = "date" => tx.createdAt >= f.gte.v
    /\ f.lte.t = "date" => tx.createdAt < f.lte.v

\* the document satisfies { memberId, productId, createdAt: { $gte, $lte } }
TransactionMatches(tx, f) ==
    /\ f.memberId # NullId => tx.memberId = f.memberId
    /\ f.productId # NullId => tx.productId = f.productId
    /\ f.gte.t = "date" => tx.createdAt >= f.gte.v
    /\ f.lte.t = "date" => tx.createdAt <= f.lte.v

\* Transaction.find(filter): the positions of the matching documents
MatchingTransactions(txs, f) == {i \in 1 .. Len(txs) : TransactionMatches(txs[i], f)}

\* .sort({ createdAt: -1 }): the orders in which the store may return the
\* documents at the positions S, documents of equal createdAt in any order
RECURSIVE NewestFirst(_, _)
NewestFirst(txs, S) ==
    IF S = {} THEN {<<>>}
    ELSE UNION {{<<i>> \o s : s \in NewestFirst(txs, S \ {i})} :
                   i \in {j \in S : \A k \in S : txs[j].createdAt >= txs[k].createdAt}}

\* GET /transactions?filter=q: the possible replies, body being the listed
\* positions in order (the member and product of each are expanded in the
\* reply, which does not change what is listed)
GetTransactionsResults(txs, q) ==
    LET f == TransactionsFilter(q) IN
    IF ~DateCasts(f.gte) \/ ~DateCasts(f.lte)
    THEN {[status |-> 500, msg |-> "Failed to get transactions.", body |-> <<>>]}
    ELSE {[status |-> 200, msg |-> "transactions", body |-> s] :
              s \in NewestFirst(txs, MatchingTransactions(txs, f))}

\* the filter {} of getMembers
EveryMember == [gte |-> NoCriterion, clubCategory |-> NoCategory]

\* getMembers, filter construction
MembersFilter(q) ==
    IF q.kind # "object" THEN EveryMember
    ELSE [gte |-> IF IsSupplied(q.validUntil) THEN q.validUntil ELSE NoCriterion,
          clubCategory |-> q.clubCategory]

\* the document satisfies { validUntil: { $gte }, clubCategory }
MemberMatches(m, f) ==
    /\ f.gte.t = "date" => m.validUntil >= f.gte.v
    /\ f.clubCategory # NoCategory => m.clubCategory = f.clubCategory

\* GET /members?filter=q: the reply, body being the set of members listed
GetMembersResult(ms, q) ==
    LET f == MembersFilter(q) IN
    IF ~DateCasts(f.gte) \/ (f.clubCategory # NoCategory /\ ~ObjectIdIsValid(f.clubCategory))
    THEN [status |-> 500, msg |-> "Failed to get members.", body |-> {}]
    ELSE [status |-> 200, msg |-> "members",
          body |-> {m \in DOMAIN ms : MemberMatches(ms[m], f)}]

\* ----------------------------------------------------------------- requests
\* Request bodies (and the :id of the path).  A handler's request set varies
\* the fields one group at a time, the other fields being absent or valid.
MemberIdInputs == {"m1", "m2", FreshId, BadId}
ProductIdInputs == {"p1", "p2", FreshId, BadId}

AddMemberReq(name, phone, clubCategory, validUntil, points, saveOk) ==
    [name |-> name, phone |-> phone, clubCategory |-> clubCategory,
     validUntil |-> validUntil, points |-> points, saveOk |-> saveOk]

AddMemberRequests ==
    {AddMemberReq(n, ph, NoCategory, NoDate, Undefined, TRUE) :
        n \in {<<>>, <<"A">>}, ph \in {<<" ">>, <<"1">>, <<" ", "1">>, <<"2">>}}
    \cup {AddMemberReq(<<"A">>, ph, c, NoDate, Undefined, TRUE) :
        ph \in {<<"1">>, <<"2">>}, c \in {"Gold", "Nope"}}
    \cup {AddMemberReq(<<"A">>, ph, NoCategory, vu, pts, TRUE) :
        ph \in {<<"1">>, <<"2">>}, vu \in {NoDate, 0}, pts \in {Undefined, Num(-5), Num(20)}}
    \cup {AddMemberReq(<<"A">>, ph, NoCategory, NoDate, Undefined, FALSE) :
        ph \in {<<"1">>, <<"2">>}}

EditMemberReq(id, name, phone, clubCategory, validUntil, points, saveOk) ==
    [id |-> id, name |-> name, phone |-> phone, clubCategory |-> clubCategory,
     validUntil |-> validUntil, points |-> points, saveOk |-> saveOk]

EditMemberRequests ==
    {EditMemberReq(id, NoStr, NoStr, NoCategory, NoDate, Undefined, TRUE) :
        id \in MemberIdInputs}
    \cup {EditMemberReq(id, Str(<<" ">>), NoStr, NoCategory, NoDate, Undefined, TRUE) :
        id \in {"m1", "m2"}}
    \cup {EditMemberReq(id, NoStr, Str(ph), NoCategory, NoDate, Undefined, TRUE) :
        id \in {"m1", "m2"}, ph \in {<<" ">>, <<"1", " ">>, <<"2">>}}
    \cup {EditMemberReq(id, NoStr, NoStr, c, NoDate, Undefined, TRUE) :
        id \in {"m1", "m2"}, c \in {"Gold", "Nope"}}
    \cup {EditMemberReq(id, NoStr, NoStr, NoCategory, 0, Undefined, TRUE) :
        id \in {"m1", "m2"}}
    \cup {EditMemberReq(id, NoStr, NoStr, NoCategory, NoDate, pts, ok) :
        id \in {"m1", "m2"}, pts \in {Num(-5), Num(5)}, ok \in BOOLEAN}

RedeemPointsRequests ==
    [id : MemberIdInputs, points : {Undefined, StringVal, Num(5), Num(10), Num(15)},
     saveOk : {TRUE}]
    \cup [id : {"m1", "m2"}, points : {Num(15)}, saveOk : {FALSE}]

AddProductRequests ==
    [name : {<<" ">>, <<"L">>, <<"N", " ">>}, price : {Undefined, StringVal, Num(-1), Num(7)},
     pointValue : {Undefined}, saveOk : {TRUE}]
    \cup [name : {<<"L">>, <<"N">>}, price : {Num(7)}, pointValue : {StringVal, Num(-1), Num(5)},
          saveOk : BOOLEAN]

EditProductRequests ==
    [id : ProductIdInputs, name : {NoStr, Str(<<" ">>), Str(<<"L">>), Str(<<"T">>), Str(<<"N">>)},
     price : {Undefined}, pointValue : {Undefined}, saveOk : {TRUE}]
    \cup [id : {"p1", "p2"}, name : {NoStr}, price : {Undefined, Num(-1), Num(7)},
          pointValue : {Undefined, StringVal, Num(5)}, saveOk : BOOLEAN]

AddTransactionRequests ==
    [memberId : {"m1", FreshId, BadId, NullId}, productId : {"p1", FreshId, BadId, NullId},
     quantity : {Undefined, Num(0)}, txSaveOk : {TRUE}, memberSaveOk : {TRUE}]
    \cup [memberId : {"m1", "m2"}, productId : {"p1", "p2"},
          quantity : {StringVal, Num(3)}, txSaveOk : {TRUE}, memberSaveOk : {TRUE}]
    \cup [memberId : {"m1"}, productId : {"p1"}, quantity : {Undefined},
          txSaveOk : BOOLEAN, memberSaveOk : BOOLEAN]
    \cup [memberId : {"m1"}, productId : {"p1", "p2"}, quantity : {Halves(1), Halves(3)},
          txSaveOk : {TRUE}, memberSaveOk : {TRUE}]

\* the date fields a filter may carry
DateInputs == {NoCriterion, EmptyString, NotADate} \cup {DateString(d) : d \in 0 .. MaxTime}

\* the payloads that are no object carry no fields
NoFields(kind) ==
    [kind |-> kind, memberId |-> NullId, productId |-> NullId,
     dateFrom |-> NoCriterion, dateTo |-> NoCriterion]

TransactionQueries ==
    {NoFields(k) : k \in {"absent", "unparseable", "scalar", "null"}}
    \cup [kind : {"object"}, memberId : {NullId, "m1", FreshId, BadId},
          productId : {NullId, "p1", BadId}, dateFrom : {NoCriterion, DateString(0)},
          dateTo : {NoCriterion}]
    \cup [kind : {"object"}, memberId : {NullId}, productId : {NullId},
          dateFrom : DateInputs, dateTo : DateInputs]

MemberQueries ==
    [kind : {"absent", "unparseable", "scalar", "null"},
     validUntil : {NoCriterion}, clubCategory : {NoCategory}]
    \cup [kind : {"object"}, validUntil : DateInputs,
          clubCategory : {NoCategory, "c1", FreshId, BadId}]

\* -------------------------------------------------------------------- state
VARIABLES
    members,       \* the members collection: identifier -> document
    products,      \* the products collection: identifier -> document
    transactions,  \* the transactions collection, in insertion order
    now,           \* the clock (new Date())
    strictQuery,   \* the strictQuery default of the mongoose build
    last,          \* the handler that ran last and its reply
    inFlight       \* the requests suspended at an await, and those that were

vars == <<members, products, transactions, now, strictQuery, last, inFlight>>

Ran(op, reply) == [op |-> op, status |-> reply.status, msg |-> reply.msg]

\* The service starts on an empty members and transactions collection and
\* the seeded products; strict ranges over the builds considered.
InitOn(strict) ==
    /\ members = <<>>
    /\ products = SeedProducts
    /\ transactions = <<>>
    /\ now = 0
    /\ strictQuery \in strict
    /\ last = [op |-> "none", status |-> 0, msg |-> ""]
    /\ inFlight = <<>>

Init == InitOn(BOOLEAN)

\* time passes
Tick ==
    /\ now < MaxTime
    /\ now' = now + 1
    /\ last' = [op |-> "tick", status |-> 0, msg |-> ""]
    /\ UNCHANGED <<members, products, transactions, strictQuery, inFlight>>

\* Each handler, serving one request of the set R.
AddMember(R) ==
    \E r \in R :
        LET res == AddMemberResult(members, now, r) IN
        /\ Cardinality(DOMAIN res.members) <= MaxMembers
        /\ members' = res.members
        /\ last' = Ran("addMember", res.reply)
        /\ UNCHANGED <<products, transactions, now, strictQuery, inFlight>>

EditMember(R) ==
    \E r \in R :
        LET res == EditMemberResult(members, r) IN
        /\ members' = res.members
        /\ last' = Ran("editMember", res.reply)
        /\ UNCHANGED <<products, transactions, now, strictQuery, inFlight>>

RedeemPoints(R) ==
    \E r \in R :
        LET res == RedeemPointsResult(members, now, r) IN
        /\ members' = res.members
        /\ last' = Ran("redeemPoints", res.reply)
        /\ UNCHANGED <<products, transactions, now, strictQuery, inFlight>>

CheckValidity(Ids) ==
    \E id \in Ids :
        /\ last' = Ran("checkValidity", CheckValidityResult(members, now, id))
        /\ UNCHANGED <<members, products, transactions, now, strictQuery, inFlight>>

AddProduct(R) ==
    \E r \in R :
        LET res == AddProductResult(products, strictQuery, r) IN
        /\ products' = res.products
        /\ last' = Ran("addProduct", res.reply)
        /\ UNCHANGED <<members, transactions, now, strictQuery, inFlight>>

EditProduct(R) ==
    \E r \in R :
        LET res == EditProductResult(products, strictQuery, r) IN
        /\ products' = res.products
        /\ last' = Ran("editProduct", res.reply)
        /\ UNCHANGED <<members, transactions, now, strictQuery, inFlight>>

AddTransaction(R) ==
    \E r \in R :
        LET res == AddTransactionResult(members, products, transactions, now, r) IN
        /\ Len(res.transactions) <= MaxTx
        /\ members' = res.members
        /\ transactions' = res.transactions
        /\ last' = Ran("addTransaction", res.reply)
        /\ UNCHANGED <<products, now, strictQuery, inFlight>>

GetTransactions(Q) ==
    \E q \in Q :
        \E res \in GetTransactionsResults(transactions, q) :
            /\ last' = [op |-> "getTransactions"] @@ res
            /\ UNCHANGED <<members, products, transactions, now, strictQuery, inFlight>>

GetMembers(Q) ==
    \E q \in Q :
        /\ last' = [op |-> "getMembers"] @@ GetMembersResult(members, q)
        /\ UNCHANGED <<members, products, transactions, now, strictQuery, inFlight>>

\* ------------------------------------------------------ interleaved handlers
\* A handler runs up to its next await, and other handlers run before it
\* resumes.  inFlight holds, in order of arrival, the requests that were
\* suspended at an await after reading their member: the step they resume
\* at (pc), the request (r), the member document they hold in memory
\* (member) and, for a purchase, the product read and the transaction built.

\* member.save() of a document whose points alone were assigned: the update
\* sets that path to the value computed in memory
SaveModifiedPoints(ms, id, doc) == [ms EXCEPT ![id].points = doc.points]

Suspended(op, pc, r, member) == [op |-> op, pc |-> pc, r |-> r, member |-> member]

Resumed(i, e) == [inFlight EXCEPT ![i] = e]

\* redeemPoints up to await member.save(): the checks of RedeemPointsResult
\* on the member as read, the subtraction made in memory
BeginRedeemPoints(R) ==
    \E r \in R :
        LET res == RedeemPointsResult(members, now, r) IN
        IF res.reply.status # 200
        THEN /\ last' = Ran("redeemPoints", res.reply)
             /\ UNCHANGED <<members, products, transactions, now, strictQuery, inFlight>>
        ELSE /\ Len(inFlight) < MaxRequests
             /\ inFlight' = Append(inFlight,
                    Suspended("redeemPoints", "saveMember", r,
                              Redeemed(members[r.id], RequestedPoints(r.points).v)))
             /\ UNCHANGED <<members, products, transactions, now, strictQuery, last>>

\* redeemPoints from member.save() to the reply
FinishRedeemPoints ==
    \E i \in 1 .. Len(inFlight) :
        LET e == inFlight[i] IN
        /\ e.op = "redeemPoints" /\ e.pc = "saveMember"
        /\ members' = SaveModifiedPoints(members, e.r.id, e.member)
        /\ inFlight' = Resumed(i, [e EXCEPT !.pc = "done"])
        /\ last' = Ran("redeemPoints", Reply(200, "Points redeemed successfully."))
        /\ UNCHANGED <<products, transactions, now, strictQuery>>

\* addTransaction up to await Product.findById(productId)
BeginAddTransaction(R) ==
    \E r \in R :
        LET q == QuantityOrDefault(r.quantity)
            reply == IF r.memberId = NullId \/ ~ObjectIdIsValid(r.memberId)
                     THEN Reply(400, "Valid memberId is required.")
                     ELSE IF r.productId = NullId \/ ~ObjectIdIsValid(r.productId)
                     THEN Reply(400, "Valid productId is required.")
                     ELSE IF ~IsNumber(q) \/ q.v < Whole(1)
                     THEN Reply(400, "Quantity must be a positive integer.")
                     ELSE IF FindMemberById(members, r.memberId) = {}
                     THEN Reply(404, "Member not found.")
                     ELSE IF IsExpired(members[r.memberId], now)
                     THEN Reply(400, "Membership expired.")
                     ELSE Reply(0, "")
        IN
        IF reply.status # 0
        THEN /\ last' = Ran("addTransaction", reply)
             /\ UNCHANGED <<members, products, transactions, now, strictQuery, inFlight>>
        ELSE /\ Len(inFlight) < MaxRequests
             /\ inFlight' = Append(inFlight,
                    Suspended("addTransaction", "findProduct", r, members[r.memberId]))
             /\ UNCHANGED <<members, products, transactions, now, strictQuery, last>>

\* addTransaction from Product.findById to await transaction.save()
FindProduct ==
    \E i \in 1 .. Len(inFlight) :
        LET e == inFlight[i] IN
        /\ e.op = "addTransaction" /\ e.pc = "findProduct"
        /\ IF FindProductById(products, e.r.productId) = {}
           THEN /\ inFlight' = Resumed(i, [e EXCEPT !.pc = "failed"])
                /\ last' = Ran("addTransaction", Reply(404, "Product not found."))
           ELSE /\ inFlight' = Resumed(i,
                       [transaction |->
                            NewTransaction(e.r.memberId, e.r.productId,
                                           products[e.r.productId],
                                           QuantityOrDefault(e.r.quantity).v, now)]
                       @@ [e EXCEPT !.pc = "saveTransaction"])
                /\ UNCHANGED last
        /\ UNCHANGED <<members, products, transactions, now, strictQuery>>

\* addTransaction from transaction.save() to await member.save(): the
\* points are added to the document in memory
SaveNewTransaction ==
    \E i \in 1 .. Len(inFlight) :
        LET e == inFlight[i] IN
        /\ e.op = "addTransaction" /\ e.pc = "saveTransaction"
        /\ transactions' = SaveTransaction(transactions, e.transaction)
        /\ inFlight' = Resumed(i,
               [e EXCEPT !.pc = "saveMember",
                         !.member = WithPointsAdded(@, e.transaction.pointsAdded)])
        /\ UNCHANGED <<members, products, now, strictQuery, last>>

\* addTransaction from member.save() to the reply
FinishAddTransaction ==
    \E i \in 1 .. Len(inFlight) :
        LET e == inFlight[i] IN
        /\ e.op = "addTransaction" /\ e.pc = "saveMember"
        /\ members' = SaveModifiedPoints(members, e.r.memberId, e.member)
        /\ inFlight' = Resumed(i, [e EXCEPT !.pc = "done"])
        /\ last' = Ran("addTransaction", Reply(200, "transaction"))
        /\ UNCHANGED <<products, transactions, now, strictQuery>>

\* ------------------------------------------------------- a single customer
\* The requests of one customer, phone "1", and of the shop editing its
\* first product: the traffic of the specifications that follow one balance.
OneMemberAdds ==
    {AddMemberReq(<<"A">>, <<"1">>, NoCategory, NoDate, pts, TRUE) :
        pts \in {Undefined, Num(-5), Num(20)}}

OneMemberEdits ==
    {EditMemberReq("m1", NoStr, NoStr, NoCategory, 0, Undefined, TRUE)}
    \cup {EditMemberReq("m1", NoStr, NoStr, NoCategory, NoDate, pts, TRUE) :
            pts \in {Num(-5), Num(20)}}

OneMemberRedeems == [id : {"m1"}, points : {Num(10), Num(15)}, saveOk : {TRUE}]

OneMemberPurchases ==
    [memberId : {"m1"}, productId : {"p1"}, quantity : {Undefined, Num(3)},
     txSaveOk : {TRUE}, memberSaveOk : BOOLEAN]

FirstProductEdits ==
    [id : {"p1"}, name : {NoStr}, price : {Num(7)}, pointValue : {Num(5)}, saveOk : {TRUE}]

NewProductAdds == [name : {<<"N">>}, price : {Num(7)}, pointValue : {Num(5)}, saveOk : {TRUE}]

\* ----------------------------------------------------------- specifications
\* The member desk: members are added and edited.
NextMembers ==
    \/ AddMember(AddMemberRequests)
    \/ EditMember(EditMemberRequests)

SpecMembers == InitOn({TRUE}) /\ [][NextMembers]_vars

\* Redemption: one customer, every redeem request.
NextRedeem ==
    \/ Tick
    \/ AddMember(OneMemberAdds)
    \/ EditMember(OneMemberEdits)
    \/ RedeemPoints(RedeemPointsRequests)

SpecRedeem == InitOn({TRUE}) /\ [][NextRedeem]_vars

\* Purchases: one customer, every purchase request.
NextPurchase ==
    \/ Tick
    \/ AddMember(OneMemberAdds)
    \/ EditMember(OneMemberEdits)
    \/ EditProduct(FirstProductEdits)
    \/ AddTransaction(AddTransactionRequests)

SpecPurchase == InitOn({TRUE}) /\ [][NextPurchase]_vars

\* The catalogue: every product request, on either build.
NextProducts ==
    \/ AddProduct(AddProductRequests)
    \/ EditProduct(EditProductRequests)

SpecProducts == Init /\ [][NextProducts]_vars

\* The whole service, following one customer.
Next ==
    \/ Tick
    \/ AddMember(OneMemberAdds)
    \/ EditMember(OneMemberEdits)
    \/ RedeemPoints(OneMemberRedeems)
    \/ CheckValidity(MemberIdInputs)
    \/ AddProduct(NewProductAdds)
    \/ EditProduct(FirstProductEdits)
    \/ AddTransaction(OneMemberPurchases)

Spec == Init /\ [][Next]_vars

\* The list endpoints, read on a store that earlier requests have filled:
\* two members and up to MaxListed purchases of one unit, in the order made.
ListedMembers ==
    ("m1" :> [name |-> <<"A">>, phone |-> <<"1">>, clubCategory |-> "c1",
              validUntil |-> 0, points |-> Whole(0)])
    @@ ("m2" :> [name |-> <<"A">>, phone |-> <<"2">>, clubCategory |-> NoCategory,
                 validUntil |-> OneYear, points |-> Whole(0)])

ListedPurchases ==
    {NewTransaction(mp[1], mp[2], SeedProducts[mp[2]], Whole(DefaultQuantity), t) :
        mp \in {<<"m1", "p1">>, <<"m2", "p2">>}, t \in 0 .. MaxTime}

TransactionLogs ==
    {log \in UNION {[1 .. n -> ListedPurchases] : n \in 0 .. MaxListed} :
        \A i \in 1 .. Len(log) - 1 : log[i].createdAt <= log[i + 1].createdAt}

InitListing ==
    /\ members = ListedMembers
    /\ products = SeedProducts
    /\ transactions \in TransactionLogs
    /\ now = MaxTime
    /\ strictQuery = TRUE
    /\ last = [op |-> "none", status |-> 0, msg |-> ""]
    /\ inFlight = <<>>

NextListing ==
    \/ GetTransactions(TransactionQueries)
    \/ GetMembers(MemberQueries)

SpecListing == InitListing /\ [][NextListing]_vars

\* Concurrent requests of one customer who holds 20 points: valid purchases
\* and redemptions, every store operation succeeding, no other traffic.
ConcurrentMembers ==
    AddMemberResult(<<>>, 0,
                    AddMemberReq(<<"A">>, <<"1">>, NoCategory, NoDate, Num(20), TRUE)).members

ConcurrentRedeems == [id : {"m1"}, points : {Num(10), Num(15)}, saveOk : {TRUE}]

ConcurrentPurchases ==
    [memberId : {"m1"}, productId : {"p1", FreshId}, quantity : {Undefined, Num(3)},
     txSaveOk : {TRUE}, memberSaveOk : {TRUE}]
    \cup [memberId : {FreshId}, productId : {"p1"}, quantity : {Undefined},
          txSaveOk : {TRUE}, memberSaveOk : {TRUE}]

InitConcurrent ==
    /\ members = ConcurrentMembers
    /\ products = SeedProducts
    /\ transactions = <<>>
    /\ now = 0
    /\ strictQuery = TRUE
    /\ last = [op |-> "none", status |-> 0, msg |-> ""]
    /\ inFlight = <<>>

NextConcurrent ==
    \/ BeginRedeemPoints(ConcurrentRedeems)
    \/ FinishRedeemPoints
    \/ BeginAddTransaction(ConcurrentPurchases)
    \/ FindProduct
    \/ SaveNewTransaction
    \/ FinishAddTransaction

SpecConcurrent == InitConcurrent /\ [][NextConcurrent]_vars

\* ===================================================================== claims

\* ------------------------------------------------------------------------ C1
\* C1: a purchase by an existing, non-expired member of an existing product
\* with a quantity >= 1, both of whose store writes are acknowledged, is
\* answered 200 and persists one more Transaction whose totalPrice is the
\* product's current price times the quantity and whose pointsAdded is the
\* product's current pointValue times the quantity; the member's points
\* become the points before plus pointsAdded and no other member changes.
PurchaseComputesTotalsAndPoints ==
    \A r \in AddTransactionRequests :
        LET qty == IF r.quantity = Undefined THEN Num(1) ELSE r.quantity IN
        ( /\ r.memberId \in DOMAIN members
          /\ ~(members[r.memberId].validUntil < now)
          /\ r.productId \in DOMAIN products
          /\ IsNumber(qty) /\ qty.v >= Whole(1)
          /\ r.txSaveOk /\ r.memberSaveOk )
        =>
        LET res == AddTransactionResult(members, products, transactions, now, r)
            tx == res.transactions[Len(res.transactions)]
        IN
        /\ res.reply.status = 200
        /\ Len(res.transactions) = Len(transactions) + 1
        /\ SubSeq(res.transactions, 1, Len(transactions)) = transactions
        /\ tx.memberId = r.memberId /\ tx.productId = r.productId
        /\ tx.quantity = qty.v
        /\ tx.totalPrice = Times(products[r.productId].price, qty.v)
        /\ tx.pointsAdded = Times(products[r.productId].pointValue, qty.v)
        /\ DOMAIN res.members = DOMAIN members
        /\ \A m \in DOMAIN members :
              res.members[m].points =
                  members[m].points + (IF m = r.memberId THEN tx.pointsAdded ELSE 0)

\* the example of the specification: price 10, pointValue 2, quantity 3
PurchaseOfThreeRecorded ==
    /\ last.op = "addTransaction" /\ last.status = 200
    /\ Len(transactions) >= 1
    /\ LET tx == transactions[Len(transactions)] IN
        /\ tx.quantity = Whole(3) /\ tx.totalPrice = Whole(30) /\ tx.pointsAdded = Whole(6)
        /\ members[tx.memberId].points = Whole(26)

\* ------------------------------------------------------------------------ C2
\* C2: a redeemPoints request answered 200 leaves the member with the points
\* before minus the requested points, a number >= 0, and every other member
\* as it was; a request answered anything else leaves every member as it was;
\* and no redeemPoints step touches a product or a transaction.
RedeemAnswerAndBalance ==
    \A r \in RedeemPointsRequests :
        LET res == RedeemPointsResult(members, now, r) IN
        IF res.reply.status = 200
        THEN /\ r.id \in DOMAIN members
             /\ DOMAIN res.members = DOMAIN members
             /\ res.members[r.id].points = members[r.id].points - r.points.v
             /\ res.members[r.id].points >= 0
             /\ \A m \in DOMAIN members :
                   res.members[m] = [members[m] EXCEPT !.points = res.members[m].points]
             /\ \A m \in DOMAIN members \ {r.id} : res.members[m] = members[m]
        ELSE res.members = members

RedeemStepFrame ==
    last'.op = "redeemPoints" =>
        /\ products' = products
        /\ transactions' = transactions
        /\ (last'.status # 200 => members' = members)
        /\ (last'.status = 200 =>
                \E m \in DOMAIN members :
                    /\ members'[m].points < members[m].points
                    /\ members'[m].points >= 0)

RedeemChangesBalanceOnlyOnSuccess == []RedeemAnswerAndBalance /\ [][RedeemStepFrame]_vars

\* the example of the specification: 20 points, 15 redeemed, 5 left
RedeemedFifteenOfTwenty ==
    /\ last.op = "redeemPoints" /\ last.status = 200
    /\ "m1" \in DOMAIN members
    /\ members["m1"].points = Whole(5)

\* ------------------------------------------------------------------------ C3
\* C3: in every reachable state every member's points are >= 0.
PointsNeverNegative == \A m \in DOMAIN members : members[m].points >= 0

\* a member bought, then redeemed the whole balance
WholeBalanceRedeemed ==
    /\ last.op = "redeemPoints" /\ last.status = 200
    /\ Len(transactions) >= 1
    /\ \E m \in DOMAIN members : members[m].points = 0

\* ------------------------------------------------------------------ C4, C5
\* what a purchase request asks for, read off the request and the store
PurchaseMemberIdWellFormed(r) == r.memberId \notin {NullId, BadId}
PurchaseProductIdWellFormed(r) == r.productId \notin {NullId, BadId}
PurchaseQuantityValid(r) ==
    r.quantity = Undefined \/ (r.quantity.t = "number" /\ r.quantity.v >= Whole(1))
PurchaseMemberExists(r) == r.memberId \in DOMAIN members
PurchaseMemberExpired(r) == members[r.memberId].validUntil < now
PurchaseProductExists(r) == r.productId \in DOMAIN products

PurchaseReply(r) == AddTransactionResult(members, products, transactions, now, r).reply

\* the first failure in the order the specification gives ("" when none)
PurchaseFailureInStatedOrder(r) ==
    IF ~PurchaseMemberIdWellFormed(r) THEN Reply(400, "Valid memberId is required.")
    ELSE IF ~PurchaseMemberExists(r) THEN Reply(404, "Member not found.")
    ELSE IF PurchaseMemberExpired(r) THEN Reply(400, "Membership expired.")
    ELSE IF ~PurchaseProductIdWellFormed(r) THEN Reply(400, "Valid productId is required.")
    ELSE IF ~PurchaseProductExists(r) THEN Reply(404, "Product not found.")
    ELSE Reply(0, "")

\* the first failure in the order the handler checks
PurchaseFailureInCheckedOrder(r) ==
    IF ~PurchaseMemberIdWellFormed(r) THEN Reply(400, "Valid memberId is required.")
    ELSE IF ~PurchaseProductIdWellFormed(r) THEN Reply(400, "Valid productId is required.")
    ELSE IF ~PurchaseQuantityValid(r) THEN Reply(400, "Quantity must be a positive integer.")
    ELSE IF ~PurchaseMemberExists(r) THEN Reply(404, "Member not found.")
    ELSE IF PurchaseMemberExpired(r) THEN Reply(400, "Membership expired.")
    ELSE IF ~PurchaseProductExists(r) THEN Reply(404, "Product not found.")
    ELSE Reply(0, "")

RedeemReply(r) == RedeemPointsResult(members, now, r).reply

\* the five rule failures and their messages, in the stated order
RedeemFailureInStatedOrder(r) ==
    IF ~(r.points.t = "number" /\ r.points.v > 0)
    THEN Reply(400, "Points must be a positive number.")
    ELSE IF r.id \notin DOMAIN members THEN Reply(404, "Member not found.")
    ELSE IF members[r.id].validUntil < now THEN Reply(400, "Membership expired.")
    ELSE IF members[r.id].points < r.points.v THEN Reply(400, "Insufficient points.")
    ELSE IF r.points.v < Whole(10) THEN Reply(400, "Minimum redeem points is 10.")
    ELSE Reply(0, "")

\* C6: redeemPoints answers with the failure of the first rule that fails,
\* in the order: points numeric and > 0, member exists, membership not
\* expired, balance >= requested, requested >= 10; the five messages differ.
\* The first rule is reported for every request; the later ones for every
\* request whose member identifier is well-formed.  With no rule failing the
\* answer is 200, or 500 when the write is rejected.  So a request below 10
\* fails although the balance suffices, and a request above the balance is
\* answered "Insufficient points." although it is also below 10.
RedeemReportsFirstFailedRule ==
    \A r \in RedeemPointsRequests :
        /\ ~(r.points.t = "number" /\ r.points.v > 0) =>
              RedeemReply(r) = Reply(400, "Points must be a positive number.")
        /\ r.id # BadId =>
            /\ RedeemFailureInStatedOrder(r).status # 0 =>
                  RedeemReply(r) = RedeemFailureInStatedOrder(r)
            /\ RedeemFailureInStatedOrder(r).status = 0 =>
                  RedeemReply(r).status = IF r.saveOk THEN 200 ELSE 500
            /\ ( /\ r.id \in DOMAIN members /\ ~(members[r.id].validUntil < now)
                 /\ r.points.t = "number" /\ r.points.v > 0 /\ r.points.v < Whole(10) ) =>
                  /\ RedeemReply(r).status = 400
                  /\ (members[r.id].points < r.points.v
                        => RedeemReply(r).msg = "Insufficient points.")
                  /\ (members[r.id].points >= r.points.v
                        => RedeemReply(r).msg = "Minimum redeem points is 10.")

\* a member without points has just asked for 5 and was told the balance is
\* short, not that 5 is below the minimum
ShortBalanceReportedBeforeMinimum ==
    /\ last.op = "redeemPoints" /\ last.msg = "Insufficient points."
    /\ "m1" \in DOMAIN members /\ members["m1"].points = 0
    /\ ~(members["m1"].validUntil < now)
    /\ RedeemReply([id |-> "m1", points |-> Num(5), saveOk |-> TRUE]).msg = last.msg
    /\ RedeemReply([id |-> "m1", points |-> Num(10), saveOk |-> TRUE]).msg = last.msg

\* ------------------------------------------------------------------------ C7
\* the purchase requests whose transaction write is acknowledged and whose
\* member write is rejected
StrandingPurchases ==
    {r \in AddTransactionRequests :
        /\ PurchaseFailureInCheckedOrder(r).status = 0
        /\ r.txSaveOk /\ ~r.memberSaveOk}

PurchaseStrandsTransaction ==
    \A r \in StrandingPurchases :
        LET res == AddTransactionResult(members, products, transactions, now, r) IN
        /\ res.reply = Reply(500, "Failed to add transaction.")
        /\ Len(res.transactions) = Len(transactions) + 1
        /\ SubSeq(res.transactions, 1, Len(transactions)) = transactions
        /\ res.transactions[Len(res.transactions)].memberId = r.memberId
        /\ res.members = members

\* no step removes or rewrites a stored transaction, and a member's points
\* rise only by an editMember request or by the increment of the purchase
\* that is being recorded in the same step
NoStepRepairs ==
    /\ Len(transactions') >= Len(transactions)
    /\ SubSeq(transactions', 1, Len(transactions)) = transactions
    /\ \A m \in DOMAIN members :
          members'[m].points > members[m].points =>
              \/ last'.op = "editMember"
              \/ /\ last'.op = "addTransaction" /\ last'.status = 200
                 /\ Len(transactions') = Len(transactions) + 1
                 /\ transactions'[Len(transactions')].memberId = m
                 /\ transactions'[Len(transactions')].pointsAdded =
                        members'[m].points - members[m].points

\* C7: when the Transaction write succeeds and the member write fails, the
\* request is answered with the generic 500, the Transaction stays stored and
\* the member's points are not incremented; no later step removes the
\* Transaction or makes up the missing increment.
StrandedTransactionIsNeverRepaired == []PurchaseStrandsTransaction /\ [][NoStepRepairs]_vars

\* a purchase worth points is stored, its member still has no points, and the
\* service has moved on to serve another request
StrandedTransactionLeftBehind ==
    /\ Len(transactions) = 1 /\ transactions[1].pointsAdded > 0
    /\ transactions[1].memberId \in DOMAIN members
    /\ members[transactions[1].memberId].points = 0
    /\ last.op = "redeemPoints" /\ last.msg = "Insufficient points."

\* ------------------------------------------------------------------------ C8
\* C8: no step of the service changes or removes a stored Transaction: each
\* keeps its member, product, quantity, totalPrice, pointsAdded and createdAt,
\* also when the product it refers to is edited afterwards.
StoredTransactionsUnchanged ==
    \A i \in 1 .. Len(transactions) :
        /\ i <= Len(transactions')
        /\ transactions'[i] = transactions[i]

TransactionsAreImmutable == [][StoredTransactionsUnchanged]_vars

\* the product of a stored transaction has just been edited and the
\* transaction still carries the old price and pointValue
TransactionOutlivesProductEdit ==
    /\ last.op = "editProduct" /\ last.status = 200
    /\ \E i \in 1 .. Len(transactions) :
        LET tx == transactions[i] IN
        /\ tx.totalPrice # Times(products[tx.productId].price, tx.quantity)
        /\ tx.pointsAdded # Times(products[tx.productId].pointValue, tx.quantity)

\* ------------------------------------------------------------------------ C9
\* C9: addMember answers 400 and adds nothing when the trimmed phone is the
\* phone of a stored member, and no two stored members have the same phone.
MemberPhoneIsUnique ==
    /\ \A r \in AddMemberRequests :
          (\E m \in DOMAIN members : members[m].phone = Trim(r.phone) /\ Trim(r.name) # <<>>) =>
              LET res == AddMemberResult(members, now, r) IN
              res.reply.status = 400 /\ res.members = members
    /\ \A m1, m2 \in DOMAIN members : m1 # m2 => members[m1].phone # members[m2].phone

\* ----------------------------------------------------------------------- C10
\* a stored product carries the name
ProductNamed(ps, name) == \E p \in DOMAIN ps : ps[p].product_name = name

\* C10: addProduct with a non-empty trimmed name and non-negative numeric
\* price and pointValue stores a product with that name and answers 200 when
\* no stored product has the name, and answers 400 "Product name already
\* exists." and stores nothing exactly when one has; no two stored products
\* share a name.
AddProductCreatesUnlessDuplicate ==
    /\ \A r \in AddProductRequests :
          LET price == IF r.price = Undefined THEN Num(0) ELSE r.price
              pv == IF r.pointValue = Undefined THEN Num(1) ELSE r.pointValue
              res == AddProductResult(products, strictQuery, r)
          IN
          ( /\ Trim(r.name) # <<>> /\ r.saveOk
            /\ price.t = "number" /\ price.v >= 0
            /\ pv.t = "number" /\ pv.v >= 0 ) =>
              IF ProductNamed(products, Trim(r.name))
              THEN /\ res.reply = Reply(400, "Product name already exists.")
                   /\ res.products = products
              ELSE /\ res.reply.status = 200
                   /\ ProductNamed(res.products, Trim(r.name))
                   /\ Cardinality(DOMAIN res.products) = Cardinality(DOMAIN products) + 1
    /\ \A p1, p2 \in DOMAIN products :
          p1 # p2 => products[p1].product_name # products[p2].product_name

\* ----------------------------------------------------------------------- C11
\* the stored products other than id that carry the name
OtherProductsNamed(ps, id, name) == {p \in DOMAIN ps \ {id} : ps[p].product_name = name}

\* C11: editProduct of a stored product P with a name some other stored
\* product carries is answered 400 and leaves the products as they were; with
\* P's own current name (which no other product carries) it is answered 200.
EditProductExcludesItself ==
    \A r \in EditProductRequests :
        ( /\ r.id \in DOMAIN products /\ r.saveOk
          /\ r.name.t = "string" /\ Trim(r.name.s) # <<>> ) =>
            LET res == EditProductResult(products, strictQuery, r) IN
            IF OtherProductsNamed(products, r.id, Trim(r.name.s)) # {}
            THEN res.reply.status = 400 /\ res.products = products
            ELSE products[r.id].product_name = Trim(r.name.s) => res.reply.status = 200

\* ----------------------------------------------------------------------- C12
\* C12: every handler that takes an identifier answers a malformed one with
\* 400 (never 500) and, the rest of the request being valid, a well-formed one
\* that names no record with 404.
MalformedIdentifierIsValidationError ==
    /\ \A r \in AddTransactionRequests :
          LET reply == AddTransactionResult(members, products, transactions, now, r).reply IN
          /\ (r.memberId = BadId \/ r.productId = BadId) => reply.status = 400
          /\ ( /\ r.memberId \notin DOMAIN members \cup {BadId, NullId}
               /\ r.productId \in DOMAIN products
               /\ PurchaseQuantityValid(r) ) => reply.status = 404
    /\ \A r \in RedeemPointsRequests :
          LET reply == RedeemPointsResult(members, now, r).reply IN
          /\ r.id = BadId => reply.status = 400
          /\ (r.id \notin DOMAIN members \cup {BadId} /\ r.points.t = "number" /\ r.points.v > 0)
                => reply.status = 404
    /\ \A r \in EditMemberRequests :
          LET reply == EditMemberResult(members, r).reply IN
          /\ r.id = BadId => reply.status = 400
          /\ r.id \notin DOMAIN members \cup {BadId} => reply.status = 404
    /\ \A id \in MemberIdInputs :
          LET reply == CheckValidityResult(members, now, id) IN
          /\ id = BadId => reply.status = 400
          /\ id \notin DOMAIN members \cup {BadId} => reply.status = 404
    /\ \A r \in EditProductRequests :
          LET reply == EditProductResult(products, strictQuery, r).reply IN
          /\ r.id = BadId => reply.status = 400
          /\ r.id \notin DOMAIN products \cup {BadId} => reply.status = 404

\* ----------------------------------------------------------------------- C13
\* the count of halves v stands for an integer
IsInteger(v) == v % Unit = 0

\* the quantity of the request, 1 when absent, is an integer >= 1
PurchaseQuantityIsPositiveInteger(r) ==
    \/ r.quantity = Undefined
    \/ r.quantity.t = "number" /\ r.quantity.v >= Whole(1) /\ IsInteger(r.quantity.v)

\* C13: a purchase whose identifiers are well-formed and whose quantity is
\* not an integer >= 1 is answered with the quantity's validation error and
\* persists nothing; every stored Transaction has an integer quantity >= 1 and
\* every member's points are an integer.
OnlyPositiveIntegerQuantityAccepted ==
    /\ \A r \in AddTransactionRequests :
          ( /\ PurchaseMemberIdWellFormed(r) /\ PurchaseProductIdWellFormed(r)
            /\ ~PurchaseQuantityIsPositiveInteger(r) ) =>
              LET res == AddTransactionResult(members, products, transactions, now, r) IN
              /\ res.reply = Reply(400, "Quantity must be a positive integer.")
              /\ res.transactions = transactions
              /\ res.members = members
    /\ \A i \in 1 .. Len(transactions) :
          transactions[i].quantity >= Whole(1) /\ IsInteger(transactions[i].quantity)
    /\ \A m \in DOMAIN members : IsInteger(members[m].points)

\* ----------------------------------------------------------------------- C14
\* the transaction satisfies every criterion the filter supplies: a
\* well-formed memberId, a well-formed productId, a dateFrom and a dateTo that
\* are dates
SatisfiesCriteria(tx, q) ==
    /\ q.memberId \notin {NullId, BadId} => tx.memberId = q.memberId
    /\ q.productId \notin {NullId, BadId} => tx.productId = q.productId
    /\ q.dateFrom.t = "date" => tx.createdAt >= q.dateFrom.v
    /\ q.dateTo.t = "date" => tx.createdAt <= q.dateTo.v

\* C14: getTransactions with a filter object none of whose dates is invalid
\* answers 200 and lists each stored transaction that satisfies every
\* supplied valid criterion exactly once, lists no other, and lists them by
\* createdAt descending.
FilterListsExactlyTheMatchesNewestFirst ==
    \A q \in TransactionQueries :
        (q.kind = "object" /\ NotADate \notin {q.dateFrom, q.dateTo}) =>
            \A res \in GetTransactionsResults(transactions, q) :
                /\ res.status = 200
                /\ {res.body[k] : k \in 1 .. Len(res.body)} =
                       {i \in 1 .. Len(transactions) : SatisfiesCriteria(transactions[i], q)}
                /\ \A k, l \in 1 .. Len(res.body) : k # l => res.body[k] # res.body[l]
                /\ \A k \in 1 .. Len(res.body) - 1 :
                       transactions[res.body[k]].createdAt
                           >= transactions[res.body[k + 1]].createdAt

\* the example of the specification: the filter { memberId: m1, dateFrom: 0 }
\* has just listed m1's two transactions, the newer first, and left out the
\* third stored transaction, which is another member's
MemberTransactionsListedNewestFirst ==
    /\ last.op = "getTransactions" /\ last.status = 200
    /\ Len(transactions) = 3 /\ Len(last.body) = 2
    /\ transactions[last.body[1]].createdAt > transactions[last.body[2]].createdAt
    /\ \A i \in 1 .. 3 : transactions[i].memberId = "m1" <=> i \in {last.body[1], last.body[2]}
    /\ last \in {[op |-> "getTransactions"] @@ res :
                    res \in GetTransactionsResults(transactions,
                        [kind |-> "object", memberId |-> "m1", productId |-> NullId,
                         dateFrom |-> DateString(0), dateTo |-> NoCriterion])}

\* ----------------------------------------------------------------------- C15
\* the payload is malformed: no JSON, JSON that is no object, or an object
\* with a date that is no date
TransactionQueryMalformed(q) ==
    q.kind \in {"unparseable", "scalar", "null"} \/ NotADate \in {q.dateFrom, q.dateTo}

MemberQueryMalformed(q) ==
    q.kind \in {"unparseable", "scalar", "null"} \/ q.validUntil = NotADate

\* C15: getTransactions and getMembers answer a malformed filter payload
\* with 200 and every stored transaction, respectively every stored member.
MalformedFilterIsNoFilter ==
    /\ \A q \in TransactionQueries :
          TransactionQueryMalformed(q) =>
              \A res \in GetTransactionsResults(transactions, q) :
                  /\ res.status = 200
                  /\ {res.body[k] : k \in 1 .. Len(res.body)} = 1 .. Len(transactions)
    /\ \A q \in MemberQueries :
          MemberQueryMalformed(q) =>
              LET res == GetMembersResult(members, q) IN
              res.status = 200 /\ res.body = DOMAIN members

\* ----------------------------------------------------------------------- C16
\* the sum of pointsAdded of the persisted transactions
RECURSIVE PointsAddedBy(_)
PointsAddedBy(txs) ==
    IF txs = <<>> THEN 0 ELSE txs[1].pointsAdded + PointsAddedBy(Tail(txs))

\* the sum of the points of the redemptions answered 200
RECURSIVE PointsRedeemedBy(_)
PointsRedeemedBy(reqs) ==
    IF reqs = <<>> THEN 0
    ELSE (IF reqs[1].op = "redeemPoints" /\ reqs[1].pc = "done"
          THEN reqs[1].r.points.v ELSE 0) + PointsRedeemedBy(Tail(reqs))

AllRequestsCompleted == \A i \in 1 .. Len(inFlight) : inFlight[i].pc \in {"done", "failed"}

\* C16: under any interleaving of concurrent purchases and redemptions of one
\* member, once every request has completed the member's points are the
\* initial points plus the pointsAdded of the persisted transactions minus
\* the points successfully redeemed, and the points redeemed never exceed
\* the points that were available.
ConcurrentRequestsLoseNoUpdate ==
    LET initial == ConcurrentMembers["m1"].points
        added == PointsAddedBy(transactions)
        redeemed == PointsRedeemedBy(inFlight)
    IN
    /\ AllRequestsCompleted => members["m1"].points = initial + added - redeemed
    /\ redeemed <= initial + added

====
